---- MODULE Spec2Model ----
(***************************************************************************)
(* Model of streamlit_viz_output.py: a Streamlit script that is re-run     *)
(* from top to bottom on every user interaction.  One script pass is one   *)
(* action.  The state that survives a pass is st.session_state, the        *)
(* widget values and the click retained by the map component; the values  *)
(* a pass computes (slice, colour range, map, nearest lookup, panel) are  *)
(* kept as variables so that properties can read them.                    *)
(*                                                                         *)
(* Numbers.  Counts are naturals.  vals (line 84) are fixed-point with     *)
(* unit 1/1000; vmin and vmax are fixed-point with unit 1/100000 (a        *)
(* quantile interpolates in hundredths between two vals).  Distances are   *)
(* kept squared: idxmin of the squares is idxmin of the distances.         *)
(***************************************************************************)
EXTENDS Integers, Sequences, FiniteSets

VARIABLES
    edge_time_series,    \* the table read at line 24: [index, columns, rows]
    edges,               \* the records read at line 25, in record order
    session_state,       \* st.session_state: a function on the keys it holds
    time_choice,         \* select_slider value (None before the first pass)
    cmap_name,           \* sidebar selectbox
    line_weight,         \* sidebar slider
    clip_quantiles,      \* sidebar checkbox
    use_log1p,           \* sidebar checkbox
    last_object_clicked, \* what st_folium returns: a dict, empty when falsy
    reached,             \* where the last pass ended
    t,                   \* the merged slice of the last pass, <<>> if none
    t_projected,         \* the same in the planar CRS, <<>> if none
    vrange,              \* <<vmin, vmax>> of the last pass, <<>> if none
    m,                   \* the map built by the last pass, <<>> if none
    lookup,              \* <<nearest_idx, new_objid>> of the last pass, <<>> if none
    panel,               \* what the right column showed in the last pass
    reruns               \* how many passes in a row have ended in st.rerun()

vars == <<edge_time_series, edges, session_state, time_choice, cmap_name,
          line_weight, clip_quantiles, use_log1p, last_object_clicked,
          reached, t, t_projected, vrange, m, lookup, panel, reruns>>

(***************************************************************************)
(* Bounds of the input families.                                           *)
(***************************************************************************)
MaxEdges == 3
MaxRows == 2
MaxCount == 2
\* passes in a row that may end in st.rerun() before the model stops counting
MaxReruns == 3

\* Python's None, for the selection and for a slider that has no value yet.
None == 0
\* pandas' NaN in the count column of a left merge (counts are >= 0).
NaN == -1

Ids == 1 .. MaxEdges
Counts == 0 .. MaxCount

SelKey == "selected_objectid"

(***************************************************************************)
(* Small helpers on sequences.                                             *)
(***************************************************************************)
SeqMin(s) == CHOOSE x \in {s[i] : i \in DOMAIN s} : \A i \in DOMAIN s : x <= s[i]
SeqMax(s) == CHOOSE x \in {s[i] : i \in DOMAIN s} : \A i \in DOMAIN s : x >= s[i]

RECURSIVE Insert(_, _)
Insert(x, s) ==
    IF s = <<>> THEN <<x>>
    ELSE IF x <= Head(s) THEN <<x>> \o s
    ELSE <<Head(s)>> \o Insert(x, Tail(s))

RECURSIVE SortSeq(_)
SortSeq(s) == IF s = <<>> THEN <<>> ELSE Insert(Head(s), SortSeq(Tail(s)))

(***************************************************************************)
(* Geometry.  A segment is an axis-aligned line between two grid points    *)
(* in lon/lat; to_crs is the same map for the click and for the segments:  *)
(* an anisotropic scaling (a degree of longitude is shorter than a degree  *)
(* of latitude away from the equator).                                     *)
(***************************************************************************)
ToCrsPoint(p) == [x |-> 5 * p.x, y |-> 6 * p.y]

ToCrsGeom(g) == [x1 |-> 5 * g.x1, y1 |-> 6 * g.y1, x2 |-> 5 * g.x2, y2 |-> 6 * g.y2]

\* edges.to_crs("EPSG:2240"): same records, same index, projected geometry
ToCrs(gdf) == [i \in DOMAIN gdf |-> [gdf[i] EXCEPT !.geometry = ToCrsGeom(gdf[i].geometry)]]

Max3(a, b, c) == IF a >= b /\ a >= c THEN a ELSE IF b >= c THEN b ELSE c

\* shapely distance of a point to a line, squared: to the nearest point of the
\* line, its interior included
Distance(g, p) ==
    LET dx == Max3(g.x1 - p.x, 0, p.x - g.x2)
        dy == Max3(g.y1 - p.y, 0, p.y - g.y2)
    IN dx * dx + dy * dy

(***************************************************************************)
(* The table and the merge.                                                *)
(***************************************************************************)
\* time_values.get_loc(time_choice): 0-based position of the label
GetLoc(time_values, label) == (CHOOSE i \in DOMAIN time_values : time_values[i] = label) - 1

\* edge_time_series.iloc[idx]: the row as a Series indexed by the columns
Iloc(table, idx) == table.rows[idx + 1]

\* gdf.merge(row, left_on="OBJECTID", right_index=True, how="left"): every
\* left record kept, in order and with its index label; count is NaN where
\* the row has no entry for the OBJECTID
Merge(gdf, row) ==
    [i \in DOMAIN gdf |->
        [index |-> gdf[i].index,
         OBJECTID |-> gdf[i].OBJECTID,
         geometry |-> gdf[i].geometry,
         count |-> IF gdf[i].OBJECTID \in DOMAIN row THEN row[gdf[i].OBJECTID] ELSE NaN]]

\* variant: the NaN counts are left in place
FillNaMissing(df) == df

\* t["count"].fillna(0.0)
FillNa(df) == [i \in DOMAIN df |-> [df[i] EXCEPT !.count = IF @ = NaN THEN 0 ELSE @]]

(***************************************************************************)
(* Colour range.                                                           *)
(***************************************************************************)
\* np.log1p on a count, in thousandths
Log1p(c) == IF c = 0 THEN 0 ELSE <<693, 1099, 1386, 1609, 1792, 1946, 2079>>[c]

\* line 84
Vals(df, log) == [i \in DOMAIN df |-> IF log THEN Log1p(df[i].count) ELSE 1000 * df[i].count]

\* variant: interpolates from the upper neighbour
QuantileFromUpper(vals, p) ==
    LET a == SortSeq(vals)
        n == Len(a)
        pos == p * (n - 1)
        lo == pos \div 100
        frac == pos % 100
        hi == IF lo + 1 <= n - 1 THEN lo + 1 ELSE n - 1
    IN 100 * a[hi + 1] + frac * (a[hi + 1] - a[lo + 1])

\* np.quantile(vals, p/100), method "linear", in units of 1/100000
Quantile(vals, p) ==
    LET a == SortSeq(vals)
        n == Len(a)
        pos == p * (n - 1)
        lo == pos \div 100
        frac == pos % 100
        hi == IF lo + 1 <= n - 1 THEN lo + 1 ELSE n - 1
    IN 100 * a[lo + 1] + frac * (a[hi + 1] - a[lo + 1])

\* variant: the two quantiles swapped
ComputeRangeSwapped(vals, clip) ==
    LET vmin == IF clip THEN Quantile(vals, 99) ELSE 100 * SeqMax(vals)
        vmax == IF clip THEN Quantile(vals, 1) ELSE 100 * SeqMin(vals)
    IN <<IF vmin = vmax THEN 0 ELSE vmin, vmax>>

\* lines 87-94
ComputeRange(vals, clip) ==
    LET vmin == IF clip THEN Quantile(vals, 1) ELSE 100 * SeqMin(vals)
        vmax == IF clip THEN Quantile(vals, 99) ELSE 100 * SeqMax(vals)
    IN <<IF vmin = vmax THEN 0 ELSE vmin, vmax>>

(***************************************************************************)
(* Nearest lookup.                                                         *)
(***************************************************************************)
\* t_projected.geometry.distance(point): a Series on t_projected's index
Distances(df, p) == [i \in DOMAIN df |-> [index |-> df[i].index, d |-> Distance(df[i].geometry, p)]]

\* variant: the label of the last occurrence of the minimum
IdxMinLast(ser) ==
    LET lowest == SeqMin([i \in DOMAIN ser |-> ser[i].d])
        last == CHOOSE i \in DOMAIN ser :
                    /\ ser[i].d = lowest
                    /\ \A j \in DOMAIN ser : ser[j].d = lowest => i >= j
    IN ser[last].index

\* Series.idxmin(): the label of the first occurrence of the minimum
IdxMin(ser) ==
    LET lowest == SeqMin([i \in DOMAIN ser |-> ser[i].d])
        first == CHOOSE i \in DOMAIN ser :
                    /\ ser[i].d = lowest
                    /\ \A j \in DOMAIN ser : ser[j].d = lowest => i <= j
    IN ser[first].index

\* variant: t.iloc[label - 1], the row before the labelled one
LocRowBefore(df, label) == df[IF label = 0 THEN Len(df) ELSE label]

\* t.loc[label]: the row carrying the label
Loc(df, label) == df[CHOOSE i \in DOMAIN df : df[i].index = label]

(***************************************************************************)
(* Session state and control flow of a pass.                               *)
(***************************************************************************)
\* variant: the selection is reset on every pass
InitSessionUnguarded(ss) == [k \in DOMAIN ss \cup {SelKey} |-> IF k = SelKey THEN None ELSE ss[k]]

\* lines 40-41
InitSession(ss) ==
    IF SelKey \in DOMAIN ss THEN ss ELSE [k \in DOMAIN ss \cup {SelKey} |-> IF k = SelKey THEN None ELSE ss[k]]

\* variant: the empty table is not detected
ShouldStopNever(n) == n < 0

\* line 44
ShouldStop(n) == n = 0

\* line 116 and line 120
HasLatLng(clicked) == DOMAIN clicked # {} /\ "lat" \in DOMAIN clicked /\ "lng" \in DOMAIN clicked

\* variant: a first selection is never taken
IsNewSelectionWhenHeld(new_objid, current_objid) == new_objid # current_objid /\ current_objid # None

\* variant: every resolved click counts as new
IsNewSelectionAlways(new_objid, current_objid) == TRUE

\* line 148
IsNewSelection(new_objid, current_objid) == new_objid # current_objid

\* variant: the selection is cleared by a pass that handles no click
SelectionAfterOrCleared(looked, new_objid, current_objid) ==
    IF looked THEN new_objid ELSE None

\* lines 116-149: the selection a pass leaves
SelectionAfter(looked, new_objid, current_objid) ==
    IF looked /\ IsNewSelection(new_objid, current_objid) THEN new_objid ELSE current_objid

NoClick == [k \in {} |-> 0]

\* One pass of the script with the widget values and the click it is run with.
RunScript(tc, cm, lw, cq, lg, click) ==
    LET ss == InitSession(session_state)
        n == Len(edge_time_series.index)
    IN
    /\ cmap_name' = cm
    /\ line_weight' = lw
    /\ clip_quantiles' = cq
    /\ use_log1p' = lg
    /\ last_object_clicked' = click
    /\ UNCHANGED <<edge_time_series, edges>>
    /\ IF ShouldStop(n) \/ n = 0
       THEN \* st.stop() at line 45; without it time_values[0] raises at line 49
            /\ reached' = IF ShouldStop(n) THEN "stop" ELSE "IndexError"
            /\ session_state' = ss
            /\ time_choice' = tc
            /\ t' = <<>> /\ t_projected' = <<>> /\ vrange' = <<>>
            /\ m' = <<>> /\ lookup' = <<>> /\ panel' = "none"
            /\ reruns' = 0
       ELSE
        LET time_values == edge_time_series.index
            default_time == time_values[1]
            choice == IF tc = None THEN default_time ELSE tc
            idx == GetLoc(time_values, choice)
            row == Iloc(edge_time_series, idx)
            tt == FillNa(Merge(edges, row))
            tp == FillNa(Merge(ToCrs(edges), row))
            rng == ComputeRange(Vals(tt, lg), cq)
            looked == HasLatLng(click)
            current_objid == ss[SelKey]
            point == ToCrsPoint([x |-> click.lng, y |-> click.lat])
            nearest_idx == IdxMin(Distances(tp, point))
            new_objid == Loc(tt, nearest_idx).OBJECTID
            changed == looked /\ IsNewSelection(new_objid, current_objid)
            selected == SelectionAfter(looked, new_objid, current_objid)
        IN
        /\ time_choice' = choice
        /\ t' = tt
        /\ t_projected' = tp
        /\ vrange' = rng
        /\ m' = <<cm, lw, rng[1], rng[2]>>
        /\ lookup' = IF looked THEN <<nearest_idx, new_objid>> ELSE <<>>
        /\ session_state' = [ss EXCEPT ![SelKey] = selected]
        /\ reruns' = IF changed THEN reruns + 1 ELSE 0
        /\ IF changed
           THEN \* st.rerun() at line 150 ends the pass
                reached' = "rerun" /\ panel' = "none"
           ELSE IF selected = None
           THEN reached' = "end" /\ panel' = "prompt"
           ELSE IF selected \in edge_time_series.columns
           THEN reached' = "end" /\ panel' = "plot"
           ELSE \* edge_time_series[selected] at line 162
                reached' = "KeyError" /\ panel' = "KeyError"


(***************************************************************************)
(* Input families.                                                         *)
(***************************************************************************)
\* the four sides of a square of two degrees, as lon/lat segments
Left == [x1 |-> 0, y1 |-> 0, x2 |-> 0, y2 |-> 2]
Right == [x1 |-> 2, y1 |-> 0, x2 |-> 2, y2 |-> 2]
Bottom == [x1 |-> 0, y1 |-> 0, x2 |-> 2, y2 |-> 0]
Top == [x1 |-> 0, y1 |-> 2, x2 |-> 2, y2 |-> 2]
Segments == {Left, Right, Bottom, Top}

\* clicks: the centre (Left and Right tie, Bottom and Top are farther once
\* projected), two corners (two sides tie at distance 0), two mid-sides
ClickPoints ==
    {[lat |-> 1, lng |-> 1], [lat |-> 0, lng |-> 0], [lat |-> 2, lng |-> 2],
     [lat |-> 0, lng |-> 1], [lat |-> 1, lng |-> 2]}

\* a dict without "lng": the test at line 120 fails
Malformed == [k \in {"lat"} |-> 1]

Colormaps == {"Blues", "Reds"}
LineWeights == {1, 3, 7}

\* gpd.read_file gives the records a RangeIndex: label i-1 for record i
ReadFile(recs) ==
    [i \in DOMAIN recs |-> [index |-> i - 1, OBJECTID |-> recs[i].OBJECTID,
                            geometry |-> recs[i].geometry]]

Distinct(recs) == \A i, j \in DOMAIN recs : recs[i].OBJECTID = recs[j].OBJECTID => i = j

GeomOf(id) == <<Left, Right, Bottom, Top>>[((id - 1) % 4) + 1]

\* the file with every id once, in id order, id i drawn as GeomOf(i + shift)
FullFile(shift) ==
    ReadFile([i \in 1 .. MaxEdges |-> [OBJECTID |-> i, geometry |-> GeomOf(i + shift)]])

\* every list of 1..MaxEdges records with unique ids, in any record order,
\* id i drawn as GeomOf(i + shift)
EdgeFiles ==
    {ReadFile(recs) : recs \in
        {r \in UNION {[1 .. k -> UNION {{[OBJECTID |-> i, geometry |-> GeomOf(i + shift)] : i \in Ids} : shift \in 0 .. 3}] : k \in 1 .. MaxEdges} :
            /\ Distinct(r)
            /\ \E shift \in 0 .. 3 : \A i \in DOMAIN r : r[i].geometry = GeomOf(r[i].OBJECTID + shift)}}

\* the files that hold ids 1..k in id order
PrefixFiles == {SubSeq(FullFile(0), 1, k) : k \in 1 .. MaxEdges}

\* a table of n rows at timestamps 10, 20, ...: row k is the first row with
\* every count moved up by k-1, modulo MaxCount+1
Table(cols, n, first) ==
    [index |-> [k \in 1 .. n |-> 10 * k],
     columns |-> cols,
     rows |-> [k \in 1 .. n |-> [c \in cols |-> (first[c] + k - 1) % (MaxCount + 1)]]]

Tables == {Table(cols, n, first) : n \in 0 .. MaxRows,
              cols \in SUBSET Ids, first \in [Ids -> Counts]}

(***************************************************************************)
(* The session.                                                            *)
(***************************************************************************)
\* the state of a new session, before the script has run: widgets at their
\* defaults (lines 54-57), nothing in st.session_state, nothing clicked
Fresh ==
    /\ session_state = [k \in {} |-> None]
    /\ time_choice = None
    /\ cmap_name = "Blues"
    /\ line_weight = 3
    /\ clip_quantiles = TRUE
    /\ use_log1p = FALSE
    /\ last_object_clicked = NoClick
    /\ reached = "init"
    /\ t = <<>> /\ t_projected = <<>> /\ vrange = <<>>
    /\ m = <<>> /\ lookup = <<>> /\ panel = "none"
    /\ reruns = 0

\* the last pass drew the widgets and the map and asked for no rerun
Interactive == reached \in {"end", "KeyError"}

\* a widget change redraws the map; the map component then either keeps the
\* click it returned before or starts afresh with none
Retained == {last_object_clicked, NoClick}

\* the session opens: the first pass
FirstRun ==
    /\ reached = "init"
    /\ RunScript(time_choice, cmap_name, line_weight, clip_quantiles, use_log1p,
                 last_object_clicked)

\* st.rerun() at line 150, or the user asking for a rerun: same widgets, same click
Rerun ==
    /\ reached # "init"
    /\ reruns < MaxReruns
    /\ RunScript(time_choice, cmap_name, line_weight, clip_quantiles, use_log1p,
                 last_object_clicked)

SetTime ==
    /\ Interactive
    /\ \E i \in DOMAIN edge_time_series.index, click \in Retained :
        /\ edge_time_series.index[i] # time_choice
        /\ RunScript(edge_time_series.index[i], cmap_name, line_weight,
                     clip_quantiles, use_log1p, click)

SetColormap ==
    /\ Interactive
    /\ \E cm \in Colormaps \ {cmap_name}, click \in Retained :
        RunScript(time_choice, cm, line_weight, clip_quantiles, use_log1p, click)

SetLineWeight ==
    /\ Interactive
    /\ \E lw \in LineWeights \ {line_weight}, click \in Retained :
        RunScript(time_choice, cmap_name, lw, clip_quantiles, use_log1p, click)

ToggleClip ==
    /\ Interactive
    /\ \E click \in Retained :
        RunScript(time_choice, cmap_name, line_weight, ~clip_quantiles, use_log1p, click)

ToggleLog ==
    /\ Interactive
    /\ \E click \in Retained :
        RunScript(time_choice, cmap_name, line_weight, clip_quantiles, ~use_log1p, click)

\* a click on the map: st_folium returns it as last_object_clicked
Click ==
    /\ Interactive
    /\ \E click \in ClickPoints \cup {Malformed} :
        RunScript(time_choice, cmap_name, line_weight, clip_quantiles, use_log1p, click)

\* The whole application on small data: every id in the file, tables that
\* count every column once in their first row and have a column for every
\* id, or for every id but one.
Init ==
    /\ edges = FullFile(0)
    /\ edge_time_series \in {Table(cols, n, [c \in Ids |-> 1]) :
            n \in 0 .. MaxRows, cols \in {Ids} \cup {Ids \ {c} : c \in Ids}}
    /\ Fresh

Next ==
    \/ FirstRun
    \/ Rerun
    \/ SetTime
    \/ SetColormap
    \/ SetLineWeight
    \/ ToggleClip
    \/ ToggleLog
    \/ Click

Spec == Init /\ [][Next]_vars

\* The nearest lookup on every record order: clicks and reruns only.
InitLocate ==
    /\ edges \in EdgeFiles
    /\ edge_time_series = Table(Ids, 1, [c \in Ids |-> 1])
    /\ Fresh

NextLocate ==
    \/ FirstRun
    \/ Rerun
    \/ Click

SpecLocate == InitLocate /\ [][NextLocate]_vars

\* The slice and the colour range on every table: timestep and toggles only.
InitSlice ==
    /\ edges \in PrefixFiles
    /\ edge_time_series \in Tables
    /\ Fresh

NextSlice ==
    \/ FirstRun
    \/ SetTime
    \/ ToggleClip
    \/ ToggleLog

SpecSlice == InitSlice /\ [][NextSlice]_vars

(***************************************************************************)
(* Properties.                                                             *)
(***************************************************************************)
\* the selection held: None while the key is not yet in st.session_state
SelectedObjectId == IF SelKey \in DOMAIN session_state THEN session_state[SelKey] ELSE None

GeometryIds == {edges[i].OBJECTID : i \in DOMAIN edges}

\* the projected click of the last pass and the distance of row i to it
ClickProjected == ToCrsPoint([x |-> last_object_clicked.lng, y |-> last_object_clicked.lat])
DistanceOfRow(i) == Distance(t_projected[i].geometry, ClickProjected)
Nearest == {i \in DOMAIN t_projected : \A j \in DOMAIN t_projected : DistanceOfRow(i) <= DistanceOfRow(j)}

\* C1: a pass that resolves the click to an id other than the held
\* selection (none, or another id) makes that id the selection and asks for a
\* rerun in the same pass.
C1_SelectionTransition ==
    [][(lookup' # <<>> /\ lookup'[2] # SelectedObjectId)
         => (SelectedObjectId' = lookup'[2] /\ reached' = "rerun")]_vars

\* segment 2 has just become the selection and the rerun is pending
C1_Witness ==
    /\ reached = "rerun"
    /\ lookup # <<>>
    /\ SelectedObjectId = lookup[2]
    /\ SelectedObjectId = 2

\* C2: a pass that resolves the click to the id already selected writes
\* nothing and asks for no rerun; the pass that follows a rerun request
\* (it re-evaluates the same retained click) resolves to the same id and
\* asks for none, so no two passes in a row end in a rerun request.
C2_SelectionIdempotence ==
    [][/\ (lookup' # <<>> /\ lookup'[2] = SelectedObjectId)
            => (SelectedObjectId' = SelectedObjectId /\ reached' # "rerun")
       /\ reached = "rerun"
            => (reached' # "rerun" /\ SelectedObjectId' = SelectedObjectId
                /\ lookup' = lookup)
       /\ reruns' <= 1]_vars

\* the quiescent pass: the retained click resolved to the selected id
C2_Witness ==
    /\ reached = "end"
    /\ reruns = 0
    /\ lookup # <<>>
    /\ lookup[2] = SelectedObjectId
    /\ panel = "plot"

\* C3: the selection exists after every pass, starts as None, changes
\* only in a pass whose lookup yields an id other than the held one (to that
\* id), and never goes back to None.
C3_SelectionWrittenOnlyByLookup ==
    [][/\ SelKey \in DOMAIN session_state'
       /\ (SelKey \notin DOMAIN session_state => SelectedObjectId' = None)
       /\ (SelectedObjectId' # SelectedObjectId
            => (lookup' # <<>> /\ lookup'[2] # SelectedObjectId
                /\ SelectedObjectId' = lookup'[2]))
       /\ (SelectedObjectId # None => SelectedObjectId' # None)]_vars

\* a selection that outlived a widget change which dropped the click
C3_Witness ==
    /\ SelectedObjectId # None
    /\ last_object_clicked = NoClick
    /\ lookup = <<>>
    /\ time_choice = 20
    /\ cmap_name = "Reds"
    /\ line_weight = 7
    /\ ~clip_quantiles
    /\ use_log1p

\* C4 as stated: among the segments at minimum distance the lookup
\* returns the lowest id.
C4_LowestIdOnTie ==
    lookup # <<>> =>
        \A i \in Nearest : lookup[2] <= t_projected[i].OBJECTID

\* C4 as amended: among the segments at minimum distance the lookup
\* returns the one that comes first in record order, and a pass run again
\* with the same click returns the same.
C4_FirstRecordOnTie ==
    [][/\ lookup' # <<>> =>
            \E i \in Nearest' :
                /\ t_projected'[i].OBJECTID = lookup'[2]
                /\ \A j \in Nearest' : i <= j
       /\ (lookup # <<>> /\ lookup' # <<>> /\ last_object_clicked' = last_object_clicked)
            => lookup' = lookup]_vars

\* a tie that was not resolved to the lowest id
C4_Witness ==
    /\ lookup # <<>>
    /\ Cardinality(Nearest) >= 2
    /\ \E i \in Nearest : t_projected[i].OBJECTID < lookup[2]

\* C5: the lookup returns the id of a row at minimum projected distance:
\* the label is that of a nearest row of the projected table and the id is
\* the id of that row.
C5_NearestCorrect ==
    lookup # <<>> =>
        /\ lookup[2] \in GeometryIds
        /\ \E i \in Nearest :
            /\ t_projected[i].index = lookup[1]
            /\ t_projected[i].OBJECTID = lookup[2]

\* a single nearest segment that is not the first record
C5_Witness ==
    /\ lookup # <<>>
    /\ Cardinality(Nearest) = 1
    /\ lookup[1] > 0
    /\ Len(t) = MaxEdges

\* the table's row at the chosen timestamp
ChosenRow == edge_time_series.rows[CHOOSE k \in DOMAIN edge_time_series.index :
                                        edge_time_series.index[k] = time_choice]

\* C6: the slice has exactly one entry for every id of the geometry
\* set, with the table's value at the chosen timestamp where the table has
\* the column and 0 where it has not, and no entry for any other id.
C6_JoinComplete ==
    t # <<>> =>
        /\ \A s \in GeometryIds :
            /\ Cardinality({i \in DOMAIN t : t[i].OBJECTID = s}) = 1
            /\ \A i \in DOMAIN t : t[i].OBJECTID = s =>
                t[i].count = IF s \in edge_time_series.columns THEN ChosenRow[s] ELSE 0
        /\ \A i \in DOMAIN t : t[i].OBJECTID \in GeometryIds

\* the second timestamp, one segment without a column, one with a non-zero
\* count, one column without a segment
C6_Witness ==
    /\ t # <<>>
    /\ time_choice = 20
    /\ \E s \in GeometryIds : s \notin edge_time_series.columns
    /\ \E i \in DOMAIN t : t[i].count > 0
    /\ \E c \in edge_time_series.columns : c \notin GeometryIds

\* the values the range of the last pass was computed from
ValsOfPass == [i \in DOMAIN t |-> IF use_log1p THEN Log1p(t[i].count) ELSE 1000 * t[i].count]

\* C7 as stated: with clipping the range lies inside the values.
C7_ClippedInsideData ==
    (vrange # <<>> /\ clip_quantiles) =>
        /\ vrange[1] >= 100 * SeqMin(ValsOfPass)
        /\ vrange[2] <= 100 * SeqMax(ValsOfPass)

\* C7 as amended: with clipping vmax is at most the largest value, and
\* vmin is at least the smallest one unless the 1st percentile equals vmax,
\* in which case vmin is 0.0.
C7_ClippedInsideDataUnlessDegenerate ==
    (vrange # <<>> /\ clip_quantiles) =>
        /\ vrange[2] <= 100 * SeqMax(ValsOfPass)
        /\ \/ vrange[1] >= 100 * SeqMin(ValsOfPass)
           \/ vrange[1] = 0 /\ Quantile(ValsOfPass, 1) = vrange[2]

\* a clipped range strictly inside the values
C7_Witness ==
    /\ vrange # <<>>
    /\ clip_quantiles
    /\ vrange[1] > 100 * SeqMin(ValsOfPass)
    /\ vrange[2] < 100 * SeqMax(ValsOfPass)
    /\ Len(t) = MaxEdges

\* C8: whatever the toggles, vmin <= vmax.
C8_RangeOrdered == vrange # <<>> => vrange[1] <= vrange[2]

\* the degenerate range, corrected, under the log transform
C8_Witness ==
    /\ vrange # <<>>
    /\ use_log1p
    /\ vrange[1] = 0
    /\ vrange[2] > 0
    /\ SeqMin(ValsOfPass) = SeqMax(ValsOfPass)

\* C9: with a table of zero rows every pass ends at st.stop() with
\* no slice, range, map, lookup or panel, and the selection as it was.
C9_EmptyTableStops ==
    [][Len(edge_time_series.index) = 0 =>
        /\ reached' = "stop"
        /\ t' = <<>> /\ t_projected' = <<>> /\ vrange' = <<>>
        /\ m' = <<>> /\ lookup' = <<>> /\ panel' = "none"
        /\ SelectedObjectId' = SelectedObjectId]_vars

\* a pass that stopped
C9_Witness ==
    /\ reached = "stop"
    /\ Len(edge_time_series.index) = 0
    /\ SelKey \in DOMAIN session_state

\* C10: a selected id is an id of the geometry set and a column of the
\* table, and the panel's column lookup does not fail.
C10_SelectedIsPlottable ==
    SelectedObjectId # None =>
        /\ SelectedObjectId \in GeometryIds
        /\ SelectedObjectId \in edge_time_series.columns
        /\ panel # "KeyError"
====
